---------------------------- MODULE Spec2Model ----------------------------
(***************************************************************************)
(* Model of the user service (UserService: create, findById, findByEmail,  *)
(* findAll, update, remove), of the global exception filter                *)
(* (HttpExceptionFilter) and of the response interceptor                   *)
(* (TransformResponseInterceptor).                                         *)
(*                                                                         *)
(* Every `await` of a service method is a point where another request may  *)
(* run, so a method with an existence check followed by a write is two     *)
(* steps of one request.                                                   *)
(***************************************************************************)
EXTENDS Integers, Sequences, FiniteSets, TLC

\* ------------------------------------------------------------------ bounds
NumProcs == 2      \* requests in flight at the same time
MaxUsers == 2      \* rows the store may hold
MaxClock == 2      \* distinct instants new Date() may return

Procs == 1..NumProcs
Ids == 1..MaxUsers

\* ------------------------------------------------------------ input values
Emails == {"a@x.io", "A@x.io"}

\* CreateUserDto: firstName, lastName, email, password.
CreateUserDto ==
    [firstName : {"Ann"}, lastName : {"Lee"}, email : Emails, password : {"secret12"}]

\* UpdateUserDto: any subset of the fields of a user may be provided.
UpdateUserDto ==
    {[firstName |-> "Bob"], [email |-> "a@x.io"], [email |-> "A@x.io"]}

\* deletedAt: null is the empty sequence, a date d is <<d>>.
NULL == <<>>

\* bcrypt.hash(password, 10): the stored value is not the plain text.
Hash(password) == [bcrypt |-> TRUE, text |-> password]

\* ------------------------------------------------------------------- state
VARIABLES
    users,      \* the user table: a sequence of rows, row i has id i
    now,        \* the clock read by new Date()
    pc,         \* per request slot: where its handler stands
    req,        \* per request slot: the operation and its arguments
    out,        \* per request slot: the value returned or the exception thrown
    exception,  \* the exception handed to the filter (filter specification)
    handler,    \* the handler outcome handed to the interceptor
    url,        \* request.url of the failed request
    hpc,        \* "start", then "sent" (a response went out) or "threw"
    response,   \* what the filter sent / the interceptor emitted, in order
    logs        \* logger.error calls of the filter

svars == <<users, now, pc, req, out>>
hvars == <<exception, handler, url, hpc, response, logs>>
vars == <<users, now, pc, req, out, exception, handler, url, hpc, response, logs>>

\* ------------------------------------------------------------- exceptions
HttpException(isBadRequest, status, resp) ==
    [kind |-> "Http", badRequest |-> isBadRequest, status |-> status, response |-> resp]

\* new XxxException('text'): the response body is {message, error, statusCode}.
MessageBody(text) ==
    [t |-> "object", s |-> "", hasMessage |-> TRUE, message |-> [t |-> "str", s |-> text]]

ConflictException(text) == HttpException(FALSE, 409, MessageBody(text))
NotFoundException(text) == HttpException(FALSE, 404, MessageBody(text))

PrismaClientKnownRequestError(code) == [kind |-> "PrismaKnown", code |-> code]

Returned(v) == [ok |-> TRUE, value |-> v]
Thrown(e) == [ok |-> FALSE, exception |-> e]

NoReq == [op |-> "none"]
NoOut == [ok |-> TRUE, value |-> "pending"]

\* ---------------------------------------------------- HttpExceptionFilter
MaxMsgLen == 2     \* pieces of one validation message
MaxMsgs == 2       \* messages of one validation error

\* A message is a string, modelled as the sequence of its pieces: " " is a
\* single space, every other piece is a run of characters without a space.
Pieces == {"email", "constructor", " "}

SeqsUpTo(S, n) == UNION {[1..k -> S] : k \in 0..n}

Messages == SeqsUpTo(Pieces, MaxMsgLen)
MessageArrays == SeqsUpTo(Messages, MaxMsgs)

\* names every object literal {} inherits from Object.prototype
ObjectPrototypeKeys == {<<"constructor">>}

\* ErrorMessage
INTERNAL_SERVER_ERROR == "Internal server error"
VALIDATION_FAILED == "Validation failed"
BAD_REQUEST == "Bad request"
GENERIC_ERROR == "Error"
RESOURCE_ALREADY_EXISTS == "Resource already exists"
RELATED_RESOURCE_NOT_FOUND == "Related resource not found"
RESOURCE_NOT_FOUND == "Resource not found"

\* PrismaErrorCode
UNIQUE_CONSTRAINT == "P2002"
FOREIGN_KEY_CONSTRAINT == "P2003"
RECORD_NOT_FOUND == "P2025"

Str(s) == [t |-> "str", s |-> s]
Arr(a) == [t |-> "arr", a |-> a]

\* msg.split(' ')[0]: the characters before the first space
RECURSIVE FirstToken(_)
FirstToken(msg) ==
    IF msg = <<>> \/ Head(msg) = " " THEN <<>>
    ELSE <<Head(msg)>> \o FirstToken(Tail(msg))

\* errors[field] on the object literal: an own property, else an inherited
\* one, else undefined
Lookup(errors, field) ==
    IF field \in DOMAIN errors THEN "own"
    ELSE IF field \in ObjectPrototypeKeys THEN "inherited"
    ELSE "undefined"

\* one iteration of the loop of formatValidationErrors; acc.threw when
\* errors[field].push is not a function
FormatStep(acc, msg) ==
    LET field == FirstToken(msg)
        found == Lookup(acc.errors, field)
        errors1 == IF found = "undefined"
                      THEN [k \in DOMAIN acc.errors \cup {field} |->
                               IF k = field THEN <<>> ELSE acc.errors[k]]
                      ELSE acc.errors
    IN  IF acc.threw THEN acc
        ELSE IF found = "inherited" THEN [threw |-> TRUE, errors |-> errors1]
        ELSE [threw |-> FALSE,
              errors |-> [errors1 EXCEPT ![field] = Append(@, msg)]]

RECURSIVE FormatLoop(_, _)
FormatLoop(acc, messages) ==
    IF messages = <<>> THEN acc
    ELSE FormatLoop(FormatStep(acc, Head(messages)), Tail(messages))

formatValidationErrors(messages) ==
    FormatLoop([threw |-> FALSE, errors |-> [k \in {} |-> <<>>]], messages)

NoErrors == [isNull |-> TRUE]
ErrorsOf(m) == [isNull |-> FALSE, fields |-> m]

\* a value is falsy when undefined or the empty string
Truthy(v) == ~(v.t = "undefined" \/ (v.t = "str" /\ v.s = ""))

\* Branch 1 and 2: HttpException and its subclasses
HttpBranch(e) ==
    LET r == e.response
        msg == r.message
    IN  IF e.badRequest /\ r.t = "object" /\ r.hasMessage
           THEN IF msg.t = "arr"
                   THEN LET f == formatValidationErrors(msg.a) IN
                        [threw |-> f.threw, statusCode |-> e.status,
                         message |-> Str(VALIDATION_FAILED),
                         errors |-> ErrorsOf(f.errors), log |-> <<>>]
                   ELSE [threw |-> FALSE, statusCode |-> e.status,
                         message |-> IF msg.t = "str" THEN msg ELSE Str(BAD_REQUEST),
                         errors |-> NoErrors, log |-> <<>>]
           ELSE [threw |-> FALSE, statusCode |-> e.status,
                 message |-> IF r.t = "string" THEN Str(r.s)
                             ELSE IF Truthy(msg) THEN msg ELSE Str(GENERIC_ERROR),
                 errors |-> NoErrors, log |-> <<>>]

\* a switch whose FOREIGN_KEY_CONSTRAINT case lost its break
PrismaKnownBranchFallThrough(e) ==
    CASE e.code = "P2002" ->
            [threw |-> FALSE, statusCode |-> 409, message |-> Str("Resource already exists"),
             errors |-> NoErrors, log |-> <<>>]
      [] e.code \in {"P2003", "P2025"} ->
            [threw |-> FALSE, statusCode |-> 404, message |-> Str("Resource not found"),
             errors |-> NoErrors, log |-> <<>>]
      [] OTHER ->
            [threw |-> FALSE, statusCode |-> 500, message |-> Str("Internal server error"),
             errors |-> NoErrors, log |-> <<"Unhandled Prisma error:">>]

\* Branch 3: the switch on exception.code
PrismaKnownBranch(e) ==
    CASE e.code = UNIQUE_CONSTRAINT ->
            [threw |-> FALSE, statusCode |-> 409, message |-> Str(RESOURCE_ALREADY_EXISTS),
             errors |-> NoErrors, log |-> <<>>]
      [] e.code = FOREIGN_KEY_CONSTRAINT ->
            [threw |-> FALSE, statusCode |-> 400, message |-> Str(RELATED_RESOURCE_NOT_FOUND),
             errors |-> NoErrors, log |-> <<>>]
      [] e.code = RECORD_NOT_FOUND ->
            [threw |-> FALSE, statusCode |-> 404, message |-> Str(RESOURCE_NOT_FOUND),
             errors |-> NoErrors, log |-> <<>>]
      [] OTHER ->
            [threw |-> FALSE, statusCode |-> 500, message |-> Str(INTERNAL_SERVER_ERROR),
             errors |-> NoErrors, log |-> <<"Unhandled Prisma error:">>]

\* Branch 4 and 5: the initial values stay
DefaultBranch(e) ==
    [threw |-> FALSE, statusCode |-> 500, message |-> Str(INTERNAL_SERVER_ERROR),
     errors |-> NoErrors,
     log |-> IF e.kind = "PrismaValidation"
                THEN <<"Prisma validation error (bug in code):">>
                ELSE <<"Unhandled exception:">>]

Classify(e) ==
    IF e.kind = "Http" THEN HttpBranch(e)
    ELSE IF e.kind = "PrismaKnown" THEN PrismaKnownBranch(e)
    ELSE DefaultBranch(e)

\* new Date().toISOString()
ToISOString(t) == [iso |-> t]

\* response.status(statusCode).json({...})
ErrorEnvelope(c, path, t) ==
    [status |-> c.statusCode,
     body |-> [success |-> FALSE, statusCode |-> c.statusCode, message |-> c.message,
               errors |-> c.errors, timestamp |-> ToISOString(t), path |-> path]]

\* HttpExceptionFilter.catch
Catch ==
    /\ hpc = "start"
    /\ exception.kind # "None"
    /\ LET c == Classify(exception) IN
         /\ logs' = logs \o c.log
         /\ IF c.threw
               THEN hpc' = "threw" /\ response' = response
               ELSE /\ hpc' = "sent"
                    /\ response' = Append(response, ErrorEnvelope(c, url, now))
    /\ UNCHANGED <<exception, handler, url>>

\* ------------------------------------------- TransformResponseInterceptor
\* a lookup that reads the class's metadata only
GetClassOnly(handlerMeta, classMeta) == classMeta

\* reflector.getAllAndOverride(SKIP_TRANSFORM_KEY, [handler, class]):
\* the first target whose metadata is defined decides
GetAllAndOverride(handlerMeta, classMeta) ==
    IF handlerMeta # "undefined" THEN handlerMeta ELSE classMeta

\* intercept: the handler's value as it is, or wrapped
Transform(h, t) ==
    IF GetAllAndOverride(h.handlerMeta, h.classMeta) = "true"
       THEN h.data
       ELSE [success |-> TRUE, data |-> h.data, timestamp |-> ToISOString(t)]

Intercept ==
    /\ hpc = "start"
    /\ handler.kind # "None"
    /\ hpc' = "sent"
    /\ response' = Append(response, Transform(handler, now))
    /\ UNCHANGED <<exception, handler, url, logs>>

\* ----------------------------------------------------- inputs of SpecHttp
NoException == [kind |-> "None"]
NoHandler == [kind |-> "None"]

\* the message property of an exception's response body
ScalarMessages == {[t |-> "undefined"], [t |-> "other"], Str(""), Str("Cart is empty")}

Body(m) == [t |-> "object", s |-> "", hasMessage |-> m.t # "undefined", message |-> m]

StringBody == [t |-> "string", s |-> "Forbidden resource", hasMessage |-> FALSE,
               message |-> [t |-> "undefined"]]

Exceptions ==
    {HttpException(TRUE, 400, Body(m)) :
        m \in ScalarMessages \cup {Arr(a) : a \in MessageArrays}}
    \cup {HttpException(FALSE, st, r) :
            st \in {404, 409},
            r \in {StringBody} \cup {Body(m) : m \in ScalarMessages \cup {Arr(<<>>), Arr(<<<<"email">>>>)}}}
    \cup {PrismaClientKnownRequestError(c) :
            c \in {"P2002", "P2003", "P2025", "P2000", "P2034"}}
    \cup {[kind |-> "PrismaValidation"], [kind |-> "Other"]}

Metadata == {"undefined", "true", "false"}

Handlers ==
    [kind : {"Handler"}, data : {Str("void"), Str("pong"), Arr(<<>>)},
     handlerMeta : Metadata, classMeta : Metadata]

InitHttp ==
    /\ users = <<>>
    /\ now = 1
    /\ pc = [p \in Procs |-> "idle"]
    /\ req = [p \in Procs |-> NoReq]
    /\ out = [p \in Procs |-> NoOut]
    /\ \/ exception \in Exceptions /\ handler = NoHandler
       \/ exception = NoException /\ handler \in Handlers
    /\ url \in {"/users", "/users/1"}
    /\ hpc = "start"
    /\ response = <<>>
    /\ logs = <<>>

NextHttp ==
    \/ Catch /\ UNCHANGED <<svars>>
    \/ Intercept /\ UNCHANGED <<svars>>

SpecHttp == InitHttp /\ [][NextHttp]_vars

\* ------------------------------------------------------------ ORM queries
\* lower-casing of an email
Lower(email) == IF email = "A@x.io" THEN "a@x.io" ELSE email

\* a comparison that ignores case
WhereEmailIgnoringCase(u, email) == Lower(u.email) = Lower(email) /\ u.deletedAt = NULL

\* where: { email, deletedAt: null }
WhereEmailNotDeleted(u, email) == u.email = email /\ u.deletedAt = NULL

\* a lookup by id that forgets the deletedAt filter
WhereIdOnly(u, id) == u.id = id

\* where: { id, deletedAt: null }
WhereIdNotDeleted(u, id) == u.id = id /\ u.deletedAt = NULL

\* a listing that forgets the deletedAt filter
WhereAnyRow(u) == TRUE

\* where: { deletedAt: null }
WhereNotDeleted(u) == u.deletedAt = NULL

\* where: { id } of update's write
UpdateWriteWhere(u, id) == u.id = id

\* a soft delete whose write forgets the deletedAt guard
RemoveWriteWhereIdOnly(u, id) == u.id = id

\* where: { id, deletedAt: null } of remove's write
RemoveWriteWhere(u, id) == u.id = id /\ u.deletedAt = NULL

\* findFirst / update: the rows a query may pick, as no orderBy is given
FindFirstByEmail(email) == {i \in DOMAIN users : WhereEmailNotDeleted(users[i], email)}
FindFirstById(id) == {i \in DOMAIN users : WhereIdNotDeleted(users[i], id)}
UpdateTargets(id) == {i \in DOMAIN users : UpdateWriteWhere(users[i], id)}
RemoveTargets(id) == {i \in DOMAIN users : RemoveWriteWhere(users[i], id)}

\* data: { ...dto }: the provided fields replace the row's.
Merge(u, data) == [f \in DOMAIN u |-> IF f \in DOMAIN data THEN data[f] ELSE u[f]]

\* a plain-text password written by update
Stored(data) ==
    [f \in DOMAIN data |->
        IF f = "password" THEN [bcrypt |-> FALSE, text |-> data[f]] ELSE data[f]]

\* prisma.user.create
NewRow(dto) ==
    [id |-> Len(users) + 1, firstName |-> dto.firstName, lastName |-> dto.lastName,
     email |-> dto.email, password |-> Hash(dto.password), deletedAt |-> NULL]

UpdateRows(i, data) == [users EXCEPT ![i] = Merge(users[i], Stored(data))]

\* ------------------------------------------------------------ UserService
Finish(p, o) ==
    /\ pc' = [pc EXCEPT ![p] = "done"]
    /\ out' = [out EXCEPT ![p] = o]

InFlightCreates == Cardinality({q \in Procs : pc[q] = "createWrite"})

\* create: findFirst by email, Conflict when found
CreateCheck(p, dto) ==
    /\ pc[p] = "idle"
    /\ Len(users) + InFlightCreates < MaxUsers
    /\ req' = [req EXCEPT ![p] = [op |-> "create", dto |-> dto]]
    /\ IF FindFirstByEmail(dto.email) # {}
          THEN Finish(p, Thrown(ConflictException("Email already exists")))
          ELSE /\ pc' = [pc EXCEPT ![p] = "createWrite"]
               /\ out' = out
    /\ UNCHANGED <<users, now>>

\* create: hash the password and insert the row
CreateWrite(p) ==
    /\ pc[p] = "createWrite"
    /\ users' = Append(users, NewRow(req[p].dto))
    /\ Finish(p, Returned(NewRow(req[p].dto)))
    /\ UNCHANGED <<now, req>>

\* findById
FindById(p, id) ==
    /\ pc[p] = "idle"
    /\ req' = [req EXCEPT ![p] = [op |-> "findById", id |-> id]]
    /\ LET m == FindFirstById(id) IN
         IF m = {}
            THEN Finish(p, Thrown(NotFoundException("User was not found")))
            ELSE \E i \in m : Finish(p, Returned(users[i]))
    /\ UNCHANGED <<users, now>>

\* findByEmail: the row or null
FindByEmail(p, email) ==
    /\ pc[p] = "idle"
    /\ req' = [req EXCEPT ![p] = [op |-> "findByEmail", email |-> email]]
    /\ LET m == FindFirstByEmail(email) IN
         IF m = {}
            THEN Finish(p, Returned(<<>>))
            ELSE \E i \in m : Finish(p, Returned(<<users[i]>>))
    /\ UNCHANGED <<users, now>>

\* findAll: findMany where deletedAt is null
FindAll(p) ==
    /\ pc[p] = "idle"
    /\ req' = [req EXCEPT ![p] = [op |-> "findAll"]]
    /\ Finish(p, Returned(SelectSeq(users, WhereNotDeleted)))
    /\ UNCHANGED <<users, now>>

\* update: findFirst by id, NotFound when absent
UpdateCheck(p, id, dto) ==
    /\ pc[p] = "idle"
    /\ req' = [req EXCEPT ![p] = [op |-> "update", id |-> id, dto |-> dto]]
    /\ IF FindFirstById(id) = {}
          THEN Finish(p, Thrown(NotFoundException("User was not found")))
          ELSE /\ pc' = [pc EXCEPT ![p] = "updateWrite"]
               /\ out' = out
    /\ UNCHANGED <<users, now>>

\* update: prisma.user.update where { id }
UpdateWrite(p) ==
    /\ pc[p] = "updateWrite"
    /\ LET m == UpdateTargets(req[p].id) IN
         IF m = {}
            THEN /\ Finish(p, Thrown(PrismaClientKnownRequestError("P2025")))
                 /\ users' = users
            ELSE \E i \in m :
                 /\ users' = UpdateRows(i, req[p].dto)
                 /\ Finish(p, Returned(UpdateRows(i, req[p].dto)[i]))
    /\ UNCHANGED <<now, req>>

\* remove: findFirst by id, NotFound when absent
RemoveCheck(p, id) ==
    /\ pc[p] = "idle"
    /\ req' = [req EXCEPT ![p] = [op |-> "remove", id |-> id]]
    /\ IF FindFirstById(id) = {}
          THEN Finish(p, Thrown(NotFoundException("User was not found")))
          ELSE /\ pc' = [pc EXCEPT ![p] = "removeWrite"]
               /\ out' = out
    /\ UNCHANGED <<users, now>>

\* remove: prisma.user.update where { id, deletedAt: null }, deletedAt = new Date()
RemoveWrite(p) ==
    /\ pc[p] = "removeWrite"
    /\ LET m == RemoveTargets(req[p].id) IN
         IF m = {}
            THEN /\ Finish(p, Thrown(PrismaClientKnownRequestError("P2025")))
                 /\ users' = users
            ELSE \E i \in m :
                 /\ users' = [users EXCEPT ![i].deletedAt = <<now>>]
                 /\ Finish(p, Returned("void"))
    /\ UNCHANGED <<now, req>>

\* the request is answered; its slot serves the next request
Return(p) ==
    /\ pc[p] = "done"
    /\ pc' = [pc EXCEPT ![p] = "idle"]
    /\ req' = [req EXCEPT ![p] = NoReq]
    /\ out' = [out EXCEPT ![p] = NoOut]
    /\ UNCHANGED <<users, now>>

\* time passes
Tick ==
    /\ now < MaxClock
    /\ now' = now + 1
    /\ UNCHANGED <<users, pc, req, out>>

Init ==
    /\ users = <<>>
    /\ now = 1
    /\ pc = [p \in Procs |-> "idle"]
    /\ req = [p \in Procs |-> NoReq]
    /\ out = [p \in Procs |-> NoOut]
    /\ exception = NoException
    /\ handler = NoHandler
    /\ url = "/users"
    /\ hpc = "start"
    /\ response = <<>>
    /\ logs = <<>>

Next ==
    \/ \E p \in Procs, dto \in CreateUserDto : CreateCheck(p, dto) /\ UNCHANGED hvars
    \/ \E p \in Procs : CreateWrite(p) /\ UNCHANGED hvars
    \/ \E p \in Procs, id \in Ids : FindById(p, id) /\ UNCHANGED hvars
    \/ \E p \in Procs, email \in Emails : FindByEmail(p, email) /\ UNCHANGED hvars
    \/ \E p \in Procs : FindAll(p) /\ UNCHANGED hvars
    \/ \E p \in Procs, id \in Ids, dto \in UpdateUserDto : UpdateCheck(p, id, dto) /\ UNCHANGED hvars
    \/ \E p \in Procs : UpdateWrite(p) /\ UNCHANGED hvars
    \/ \E p \in Procs, id \in Ids : RemoveCheck(p, id) /\ UNCHANGED hvars
    \/ \E p \in Procs : RemoveWrite(p) /\ UNCHANGED hvars
    \/ \E p \in Procs : Return(p) /\ UNCHANGED hvars
    \/ Tick /\ UNCHANGED hvars

Spec == Init /\ [][Next]_vars

\* ------------------------------------------------------------------ claims
ActiveWithEmail(rows, email) ==
    {i \in DOMAIN rows : rows[i].email = email /\ rows[i].deletedAt = NULL}

ActiveWithId(rows, id) ==
    {i \in DOMAIN rows : rows[i].id = id /\ rows[i].deletedAt = NULL}

IsHttpError(o, status) ==
    ~o.ok /\ o.exception.kind = "Http" /\ o.exception.status = status

\* C1: in every reachable state at most one row with deletedAt = null exists
\* for any given email.
C1_OneActiveUserPerEmail ==
    \A i, j \in DOMAIN users :
        (i # j /\ users[i].deletedAt = NULL /\ users[j].deletedAt = NULL)
            => users[i].email # users[j].email

\* C2: a create whose existence check finds a non-deleted row with exactly
\* the same email ends with Conflict (409) and changes no row; a create whose
\* check finds none goes on to its write, and that write adds exactly one
\* non-deleted row with the request's email and changes no other row.
C2_CreateContract ==
    [][\A p \in Procs :
        LET started == pc[p] = "idle" /\ pc'[p] # "idle" /\ req'[p].op = "create"
            dup == ActiveWithEmail(users, req'[p].dto.email) # {}
            wrote == pc[p] = "createWrite" /\ pc'[p] = "done"
        IN  /\ (started /\ dup) =>
                 pc'[p] = "done" /\ IsHttpError(out'[p], 409) /\ users' = users
            /\ (started /\ ~dup) => pc'[p] = "createWrite" /\ users' = users
            /\ wrote =>
                 /\ out'[p].ok
                 /\ Len(users') = Len(users) + 1
                 /\ SubSeq(users', 1, Len(users)) = users
                 /\ users'[Len(users')].email = req[p].dto.email
                 /\ users'[Len(users')].deletedAt = NULL
                 /\ out'[p].value = users'[Len(users')]
    ]_vars

\* C2 witness: one create answered Conflict, and another create completed
\* while a non-deleted row whose email differs only in case exists.
C2_Witness ==
    \E p, q \in Procs :
        /\ pc[p] = "done" /\ req[p].op = "create" /\ out[p].ok
        /\ \E i \in DOMAIN users :
              /\ i # out[p].value.id
              /\ users[i].deletedAt = NULL
              /\ users[i].email # req[p].dto.email
              /\ Lower(users[i].email) = Lower(req[p].dto.email)
        /\ pc[q] = "done" /\ req[q].op = "create" /\ IsHttpError(out[q], 409)

\* C3: no step removes a row, changes an id or changes a deletedAt that is
\* set; a remove that succeeds leaves its row with deletedAt set; findById of
\* a row whose deletedAt is set fails with NotFound; findAll and findByEmail
\* return no row whose deletedAt is set; create raises Conflict only when a
\* non-deleted row has its email.
C3_SoftDelete ==
    [][/\ Len(users') >= Len(users)
       /\ \A i \in DOMAIN users :
             /\ users'[i].id = users[i].id
             /\ users[i].deletedAt # NULL => users'[i].deletedAt = users[i].deletedAt
       /\ \A p \in Procs :
             LET r == req'[p]
                 o == out'[p]
                 Deleted(i) == i \in DOMAIN users' /\ users'[i].deletedAt # NULL
                 NoneDeleted(rows) ==
                     \A k \in DOMAIN rows :
                         rows[k].deletedAt = NULL /\ ~Deleted(rows[k].id)
             IN  (pc[p] # "done" /\ pc'[p] = "done") =>
                   /\ (r.op = "remove" /\ o.ok) => Deleted(r.id)
                   /\ (r.op = "findById" /\ Deleted(r.id)) => IsHttpError(o, 404)
                   /\ r.op \in {"findAll", "findByEmail"} => o.ok /\ NoneDeleted(o.value)
                   /\ (r.op = "create" /\ ~o.ok) =>
                         ActiveWithEmail(users, r.dto.email) # {}
    ]_vars

\* C3 witness: row 1 is soft-deleted and still stored, a create with its
\* email has succeeded as row 2, findAll has returned row 2 alone.
C3_Witness ==
    \E p, q \in Procs :
        /\ Len(users) = 2 /\ users[1].deletedAt # NULL /\ users[2].deletedAt = NULL
        /\ pc[p] = "done" /\ req[p].op = "create" /\ out[p].ok
        /\ out[p].value.id = 2 /\ req[p].dto.email = users[1].email
        /\ pc[q] = "done" /\ req[q].op = "findAll"
        /\ Len(out[q].value) = 1 /\ out[q].value[1].id = 2

\* C4: an update or remove whose id matches no row, or only a row whose
\* deletedAt is set, ends with NotFound (404) and changes no row.
C4_NotFoundOnAbsentId ==
    [][\A p \in Procs :
        (/\ pc[p] = "idle" /\ pc'[p] # "idle"
         /\ req'[p].op \in {"update", "remove"}
         /\ ActiveWithId(users, req'[p].id) = {})
        => pc'[p] = "done" /\ IsHttpError(out'[p], 404) /\ users' = users
    ]_vars

\* C4 witness: an update of a soft-deleted id and a remove of an id that no
\* row has were both answered NotFound.
C4_Witness ==
    \E p, q \in Procs :
        /\ pc[p] = "done" /\ req[p].op = "update" /\ IsHttpError(out[p], 404)
        /\ req[p].id \in DOMAIN users /\ users[req[p].id].deletedAt # NULL
        /\ pc[q] = "done" /\ req[q].op = "remove" /\ IsHttpError(out[q], 404)
        /\ req[q].id \notin DOMAIN users

\* C9: the write of update changes no field of a row whose deletedAt is set.
C9_UpdateLeavesDeletedRows ==
    [][\A p \in Procs :
        (pc[p] = "updateWrite" /\ pc'[p] = "done") =>
            \A i \in DOMAIN users : users[i].deletedAt # NULL => users'[i] = users[i]
    ]_vars

\* C10: of the remove requests on one id, no two succeed; each one that has
\* ended has succeeded or ended in an error the filter reports with status
\* 404; once one has passed the existence check and ended, the row's
\* deletedAt is set; a deletedAt that is set is never written again.
C10_ConcurrentRemove ==
    /\ [](\A p \in Procs :
            (pc[p] = "done" /\ req[p].op = "remove") =>
               /\ out[p].ok \/ (/\ ~Classify(out[p].exception).threw
                                /\ Classify(out[p].exception).statusCode = 404)
               /\ (out[p].ok \/ out[p].exception.kind = "PrismaKnown") =>
                     users[req[p].id].deletedAt # NULL
               /\ \A q \in Procs \ {p} :
                     ~(/\ pc[q] = "done" /\ req[q].op = "remove"
                       /\ req[q].id = req[p].id /\ out[q].ok /\ out[p].ok))
    /\ [][\A i \in DOMAIN users :
            users[i].deletedAt # NULL => users'[i].deletedAt = users[i].deletedAt]_vars

\* C10 witness: two removes of the same id both passed the existence check;
\* one succeeded and the other got the record-not-found code from its write.
C10_Witness ==
    \E p, q \in Procs :
        /\ pc[p] = "done" /\ req[p].op = "remove" /\ out[p].ok
        /\ pc[q] = "done" /\ req[q].op = "remove" /\ req[q].id = req[p].id
        /\ ~out[q].ok /\ out[q].exception.kind = "PrismaKnown"
        /\ out[q].exception.code = "P2025"

FilterActed == hpc # "start" /\ exception.kind # "None"

\* C5: for an ORM known-request error the status and the message follow from
\* the code alone: P2002 409 "Resource already exists", P2003 400 "Related
\* resource not found", P2025 404 "Resource not found", any other code 500
\* "Internal server error"; errors is null in all four cases.
C5_PrismaCodeMapping ==
    (FilterActed /\ exception.kind = "PrismaKnown") =>
        /\ hpc = "sent" /\ Len(response) = 1
        /\ LET expected ==
                   CASE exception.code = "P2002" -> <<409, "Resource already exists">>
                     [] exception.code = "P2003" -> <<400, "Related resource not found">>
                     [] exception.code = "P2025" -> <<404, "Resource not found">>
                     [] OTHER -> <<500, "Internal server error">>
               b == response[1].body
           IN  /\ response[1].status = expected[1]
               /\ b.statusCode = expected[1]
               /\ b.message.t = "str" /\ b.message.s = expected[2]
               /\ b.errors.isNull

\* C5 witness: the filter answered a foreign-key-constraint error.
C5_Witness ==
    /\ hpc = "sent" /\ exception.kind = "PrismaKnown" /\ exception.code = "P2003"
    /\ response[1].status = 400

IsValidationError ==
    /\ exception.kind = "Http" /\ exception.badRequest
    /\ exception.response.t = "object" /\ exception.response.hasMessage
    /\ exception.response.message.t = "arr"

\* every message once, under its first token, in input order, no other key
Grouped(messages, fields) ==
    /\ DOMAIN fields = {FirstToken(messages[i]) : i \in DOMAIN messages}
    /\ \A k \in DOMAIN fields :
          fields[k] = SelectSeq(messages, LAMBDA m : FirstToken(m) = k)

\* C6: for a BadRequest error whose message is an array of strings the
\* filter responds with message "Validation failed" and an errors mapping
\* holding every input message once, under its first space-delimited token,
\* in input order, and no other key.
C6_ValidationGrouping ==
    (FilterActed /\ IsValidationError) =>
        /\ hpc = "sent" /\ Len(response) = 1
        /\ response[1].body.message.t = "str"
        /\ response[1].body.message.s = "Validation failed"
        /\ ~response[1].body.errors.isNull
        /\ Grouped(exception.response.message.a, response[1].body.errors.fields)

\* C7: the interceptor emits {success: true, data, timestamp} with data the
\* handler's result unless the skip marker is set, emits the handler's
\* result unchanged when it is set, and the handler's marker, when defined,
\* decides over the class's.
C7_Envelope ==
    (hpc = "sent" /\ handler.kind = "Handler") =>
        /\ Len(response) = 1
        /\ LET marker == IF handler.handlerMeta # "undefined"
                            THEN handler.handlerMeta ELSE handler.classMeta
               wrapped == "success" \in DOMAIN response[1]
           IN  IF marker = "true"
                  THEN ~wrapped /\ response[1] = handler.data
                  ELSE /\ wrapped
                       /\ DOMAIN response[1] = {"success", "data", "timestamp"}
                       /\ response[1].success = TRUE
                       /\ response[1].data = handler.data
                       /\ response[1].timestamp = [iso |-> now]

\* C7 witness: the handler's marker is set and the class's is not, and the
\* handler's result went out unwrapped.
C7_Witness ==
    /\ hpc = "sent" /\ handler.kind = "Handler"
    /\ handler.handlerMeta = "true" /\ handler.classMeta # "true"
    /\ response[1] = handler.data

\* C8: for every exception the filter sends exactly one response of the
\* shape {success: false, statusCode, message, errors, timestamp, path} whose
\* HTTP status is the body's statusCode; for an ORM query-construction error
\* and for an exception of no known class the status is 500, the message
\* "Internal server error" and errors null.
C8_OneEnvelopePerException ==
    FilterActed =>
        /\ hpc = "sent" /\ Len(response) = 1
        /\ LET b == response[1].body IN
              /\ DOMAIN b = {"success", "statusCode", "message", "errors", "timestamp", "path"}
              /\ b.success = FALSE
              /\ response[1].status = b.statusCode
              /\ b.path = url
              /\ exception.kind \in {"PrismaValidation", "Other"} =>
                    /\ b.statusCode = 500
                    /\ b.message.t = "str" /\ b.message.s = "Internal server error"
                    /\ b.errors.isNull

=============================================================================
